---- MODULE Spec2Model ----
(***************************************************************************)
(* HireFlow AI backend: the multi-agent evaluation round.                  *)
(*                                                                         *)
(*   evaluateCandidate  (agents.js)   fan-out to the three agents, fan-in  *)
(*                                    with Promise.all                     *)
(*   negotiateScores    (agents.js)   discrepancy test and the mediator    *)
(*   decideHiring       (decision.js, listed in hireflow_backend/README.md)*)
(*                                    negotiation, judgment, follow-up     *)
(*   the HTTP API       (server.js)   /upload, /evaluate, /decide, /status *)
(*                                    and /result over the cached session  *)
(*   the cache          (redis.js)    setRedis, getRedis, deleteRedis over *)
(*                                    Redis and the in-memory fallback     *)
(*                                                                         *)
(* Node.js runs one callback at a time: every action below is one          *)
(* callback of the event loop together with the promise continuations      *)
(* (microtasks) it triggers.                                               *)
(***************************************************************************)
EXTENDS Integers, Sequences, FiniteSets, TLC

VARIABLES
    candidate,      \* the argument of evaluateCandidate
    ec_pc,          \* evaluateCandidate: "idle" | "awaiting" | "returned" | "threw"
    http,           \* per agent, its HTTPS request to SmartInference
    agent,          \* per agent, the promise returned by Agent.evaluate
    order,          \* the agents in the order in which their promises settled
    ec_result,      \* what evaluateCandidate returned (or threw)
    dh_pc,          \* decideHiring: "idle" | "negotiating" | "judging" |
                    \*               "clarifying" | "returned" | "threw"
    dh_evals,       \* the argument of decideHiring
    gen,            \* the capability request decideHiring is waiting for
    calls,          \* invocations made so far: mediator, judge, clarify
    negotiationResult,  \* what negotiateScores returned
    decision,       \* the decision object (returned when dh_pc = "returned")
    answers,        \* what each capability answered in this round, if it did
    prompts,        \* what the prompt of each capability was built from
    cache,          \* the cache behind setRedis / getRedis: key -> string
    db,             \* the rows inserted into the database
    req,            \* per slot, the HTTP request the server is handling
    started,        \* number of requests received so far
    redisClient,    \* redis.js: "uninitialized" | "undefined" | "open" | "closed"
    redisStore,     \* the keys the Redis server holds: key -> value and expiry
    memoryCache,    \* redis.js: the in-memory fallback Map
    timers,         \* the setTimeout callbacks that are scheduled
    now,            \* the clock, in ticks
    lastSet,        \* per key, the latest setRedis not followed by a deleteRedis
    lastGet         \* the latest getRedis since the last write, and its result

vars == <<candidate, ec_pc, http, agent, order, ec_result,
          dh_pc, dh_evals, gen, calls, negotiationResult, decision, answers,
          prompts,
          cache, db, req, started,
          redisClient, redisStore, memoryCache, timers, now, lastSet, lastGet>>

ecVars == <<candidate, ec_pc, http, agent, order, ec_result>>
dhVars == <<dh_pc, dh_evals, gen, calls, negotiationResult, decision, answers,
           prompts>>
srvVars == <<cache, db, req, started>>
rcVars == <<redisClient, redisStore, memoryCache, timers, now, lastSet, lastGet>>

-----------------------------------------------------------------------------
(* Bounds of the model and constants of the program.                       *)

\* Scores an agent's JSON may carry: 0 .. MaxInputScore (so 0 and 11 are
\* out-of-range inputs next to the documented 1..10).
MaxInputScore == 11

\* Scores of the evaluation sets handed to negotiateScores:
\* MinNegScore .. MaxNegScore.
MinNegScore == 4
MaxNegScore == 9

\* Consensus scores a mediator's JSON may carry: 0 .. MaxConsensus.
MaxConsensus == 11

\* "score": <1-10> in the agents' prompts.
ScoreMin == 1
ScoreMax == 10

\* The neutral score of the default evaluation.
PlaceholderScore == 5

\* if (maxDiff > 2)
NegotiationThreshold == 2

\* Requests the server receives in one run, and how many it handles at once.
MaxRequests == 4
MaxConcurrent == 2

\* The time to live of a cache entry and the length of a run, in ticks of
\* the clock.
CacheTtl == 2
MaxTime == 4

-----------------------------------------------------------------------------
(* JSON values.  A JSON object is a function from its keys to values; a    *)
(* key the object lacks reads as undefined.                                *)

JNum(n) == [t |-> "num", n |-> n, s |-> ""]
JStr(s) == [t |-> "str", n |-> 0, s |-> s]
\* the placeholder's analysis object {error: msg, note: '...'}
JErr(m) == [t |-> "errobj", n |-> 0, s |-> m]
Undefined == [t |-> "undef", n |-> 0, s |-> ""]
\* a nested object, such as the details of a decision
JObj(o) == [t |-> "obj", n |-> 0, s |-> "", o |-> o]
EmptyObj == [k \in {} |-> Undefined]

Get(o, k) == IF k \in DOMAIN o THEN o[k] ELSE Undefined

\* stands where a record carries no value
Nothing == [nothing |-> TRUE]

Agents == {"hr", "manager", "sales"}

\* the order of the array given to Promise.all
AgentOrder == <<"hr", "manager", "sales">>

-----------------------------------------------------------------------------
(* Response texts.  A text is a sequence of segments:                      *)
(*   prose   characters without braces                                     *)
(*   lbrace  a lone "{"          rbrace  a lone "}"                        *)
(*   json    the text of one well-formed JSON object (field o)             *)
(*   badobj  "{ ... }" that is not JSON (e.g. {"score": <1-10>})           *)
(*   undef   not a string: the value undefined                             *)

Prose == [k |-> "prose"]
LBrace == [k |-> "lbrace"]
RBrace == [k |-> "rbrace"]
BadObj == [k |-> "badobj"]
Json(o) == [k |-> "json", o |-> o]
UndefinedText == <<[k |-> "undef"]>>

HasOpen(seg) == seg.k \in {"lbrace", "json", "badobj"}
HasClose(seg) == seg.k \in {"rbrace", "json", "badobj"}

\* /\{[\s\S]*\}/.exec(text): from the first "{" to the last "}" (greedy),
\* <<>> for null.  exec(undefined) searches the string "undefined".
RegexExec(text) ==
    LET opens == {i \in 1..Len(text) : HasOpen(text[i])}
        closes == {j \in 1..Len(text) : HasClose(text[j])}
    IN  IF opens = {} \/ closes = {} THEN <<>>
        ELSE LET i == CHOOSE x \in opens : \A y \in opens : x <= y
                 j == CHOOSE x \in closes : \A y \in closes : x >= y
             IN  IF j < i THEN <<>> ELSE SubSeq(text, i, j)

\* JSON.parse of a regex match: the match starts with "{" and ends with "}";
\* it is JSON exactly when it is the text of one well-formed object.
JsonParse(m) ==
    IF Len(m) = 1 /\ m[1].k = "json"
    THEN [ok |-> TRUE, value |-> m[1].o, message |-> ""]
    ELSE [ok |-> FALSE, value |-> Nothing, message |-> "SyntaxError: Unexpected token"]

-----------------------------------------------------------------------------
(* callSmartInference: the HTTPS exchange and how its promise settles.     *)

NetError == [kind |-> "error", status |-> 0, body |-> "", text |-> <<>>]
HttpResp(status, body, text) ==
    [kind |-> "http", status |-> status, body |-> body, text |-> text]

\* body: "garbage" (not JSON), "notext" (JSON without text), "text"
CallSmartInference(resp) ==
    IF resp.kind = "error"
    THEN [ok |-> FALSE, text |-> <<>>, message |-> "ECONNRESET"]
    ELSE IF resp.status >= 200 /\ resp.status < 300
    THEN IF resp.body = "garbage"
         THEN [ok |-> FALSE, text |-> <<>>,
               message |-> "Failed to parse JSON response from SmartInference"]
         ELSE IF resp.body = "notext"
         THEN [ok |-> TRUE, text |-> UndefinedText, message |-> ""]
         ELSE [ok |-> TRUE, text |-> resp.text, message |-> ""]
    ELSE [ok |-> FALSE, text |-> <<>>,
          message |-> "Request failed with status code"]

-----------------------------------------------------------------------------
(* What the SmartInference endpoint may answer to an agent's prompt.       *)

EvalObj(score, rec) ==
    [score |-> JNum(score), recommendation |-> JStr(rec),
     analysis |-> JStr("assessment")]

AgentTexts ==
    { <<Json(EvalObj(s, "YES"))>> : s \in 0..MaxInputScore }
    \cup
    { <<Prose, Json(EvalObj(ScoreMax - 1, "STRONG_YES")), Prose>>,
      <<Prose>>,
      <<BadObj>>,
      <<LBrace, Prose>>,
      \* an object without score
      <<Json([recommendation |-> JStr("YES"), analysis |-> JStr("assessment")])>>,
      \* "score": "8"
      <<Json([score |-> JStr("8"), recommendation |-> JStr("YES"),
              analysis |-> JStr("assessment")])>>,
      \* a label outside STRONG_YES/YES/MAYBE/NO
      <<Json(EvalObj(ScoreMax - 2, "PASS"))>>,
      \* an object without recommendation
      <<Json([score |-> JNum(ScoreMax - 2), analysis |-> JStr("assessment")])>>,
      \* an object, then prose with a closing brace
      <<Json(EvalObj(ScoreMax - 2, "NO")), Prose, RBrace>> }

Responses ==
    { NetError,
      HttpResp(500, "garbage", <<>>),
      HttpResp(200, "garbage", <<>>),
      HttpResp(200, "notext", <<>>) }
    \cup { HttpResp(200, "text", t) : t \in AgentTexts }

\* no request was made
NoResponse == [kind |-> "none", status |-> 0, body |-> "", text |-> <<>>]

Candidates == { [given |-> TRUE, cvIsString |-> b] : b \in BOOLEAN }
NoCandidate == [given |-> FALSE, cvIsString |-> FALSE]

-----------------------------------------------------------------------------
(* Promises.                                                               *)

Pending == [status |-> "pending", value |-> Nothing, reason |-> ""]
Fulfilled(v) == [status |-> "fulfilled", value |-> v, reason |-> ""]
Rejected(m) == [status |-> "rejected", value |-> Nothing, reason |-> m]

\* Variant: the values collected in the order of completion.
PromiseAllInCompletionOrder(outcomes, ord) ==
    LET rej == {i \in 1..Len(ord) : outcomes[ord[i]].status = "rejected"}
    IN  IF rej # {}
        THEN Rejected(outcomes[ord[CHOOSE i \in rej : \A j \in rej : i <= j]].reason)
        ELSE IF Len(ord) = Len(AgentOrder)
        THEN Fulfilled([i \in 1..Len(AgentOrder) |-> outcomes[ord[i]].value])
        ELSE Pending

\* Promise.all over the array AgentOrder of promises `outcomes`, which
\* settled in the order `ord`: rejected with the reason of the first promise
\* that rejected, fulfilled with the values in ARRAY order once all are
\* fulfilled, pending otherwise.
PromiseAll(outcomes, ord) ==
    LET rej == {i \in 1..Len(ord) : outcomes[ord[i]].status = "rejected"}
    IN  IF rej # {}
        THEN Rejected(outcomes[ord[CHOOSE i \in rej : \A j \in rej : i <= j]].reason)
        ELSE IF Len(ord) = Len(AgentOrder)
        THEN Fulfilled([i \in 1..Len(AgentOrder) |-> outcomes[AgentOrder[i]].value])
        ELSE Pending

-----------------------------------------------------------------------------
(* Agent.evaluate                                                          *)

\* Variant: a default evaluation that counts against the candidate.
PlaceholderZeroNo(message) ==
    [score |-> JNum(0), recommendation |-> JStr("NO"), analysis |-> JErr(message)]

\* the default evaluation returned from the catch block
Placeholder(message) ==
    [score |-> JNum(PlaceholderScore), recommendation |-> JStr("MAYBE"),
     analysis |-> JErr(message)]

\* The try block: the value it returns, or the message of what it throws.
AgentTry(c, resp) ==
    IF ~c.cvIsString
    THEN [threw |-> TRUE, value |-> Nothing,
          message |-> "candidate.cv_text.substring is not a function"]
    ELSE LET inf == CallSmartInference(resp) IN
         IF ~inf.ok
         THEN [threw |-> TRUE, value |-> Nothing, message |-> inf.message]
         ELSE LET m == RegexExec(inf.text) IN
              IF m = <<>>
              THEN [threw |-> TRUE, value |-> Nothing,
                    message |-> "Invalid JSON response format from agent"]
              ELSE LET p == JsonParse(m) IN
                   IF p.ok
                   THEN [threw |-> FALSE, value |-> p.value, message |-> ""]
                   ELSE [threw |-> TRUE, value |-> Nothing, message |-> p.message]

\* Variant: evaluate() without its catch block.
AgentEvaluateNoCatch(c, resp) ==
    LET b == AgentTry(c, resp)
    IN  IF b.threw THEN Rejected(b.message) ELSE Fulfilled(b.value)

\* How the promise of evaluate() settles: the catch block turns every throw
\* into the default evaluation.
AgentEvaluate(c, resp) ==
    LET b == AgentTry(c, resp)
    IN  IF b.threw THEN Fulfilled(Placeholder(b.message)) ELSE Fulfilled(b.value)

-----------------------------------------------------------------------------
(* evaluateCandidate                                                       *)

\* Variant: the destructured results under the wrong keys.
BuildEvaluationsShifted(vals) ==
    [hr |-> vals[2], manager |-> vals[3], sales |-> vals[1]]

\* Variant: the mapping is built without its last key.
BuildEvaluationsWithoutSales(vals) ==
    [hr |-> vals[1], manager |-> vals[2]]

\* const evaluations = { hr: hrEval, manager: managerEval, sales: salesEval }
BuildEvaluations(vals) ==
    [hr |-> vals[1], manager |-> vals[2], sales |-> vals[3]]

NoResult == [status |-> "none", value |-> Nothing, reason |-> ""]

\* The code after `await Promise.all(...)`: return the mapping, or (catch)
\* log and rethrow.
EvaluateCandidateResume(join) ==
    IF join.status = "fulfilled"
    THEN [pc |-> "returned",
          result |-> [status |-> "returned",
                      value |-> BuildEvaluations(join.value), reason |-> ""]]
    ELSE IF join.status = "rejected"
    THEN [pc |-> "threw",
          result |-> [status |-> "threw", value |-> Nothing, reason |-> join.reason]]
    ELSE [pc |-> "awaiting", result |-> NoResult]

HttpIdle == [st |-> "none", resp |-> NoResponse]
HttpPending == [st |-> "pending", resp |-> NoResponse]
HttpHung == [st |-> "hung", resp |-> NoResponse]
HttpDone(r) == [st |-> "done", resp |-> r]

\* evaluateCandidate(c) up to its await: the three evaluate() calls run up to
\* their own await (the request is written), or fail before it.
EvaluateCandidateCall(c) ==
    /\ ec_pc = "idle"
    /\ candidate' = c
    /\ IF c.cvIsString
       THEN /\ http' = [a \in Agents |-> HttpPending]
            /\ agent' = [a \in Agents |-> Pending]
            /\ order' = <<>>
            /\ ec_pc' = "awaiting"
            /\ ec_result' = NoResult
       ELSE LET settled == [a \in Agents |-> AgentEvaluate(c, NoResponse)]
                next == EvaluateCandidateResume(PromiseAll(settled, AgentOrder))
            IN  /\ http' = http
                /\ agent' = settled
                /\ order' = AgentOrder
                /\ ec_pc' = next.pc
                /\ ec_result' = next.result
    /\ UNCHANGED dhVars
    /\ UNCHANGED srvVars
    /\ UNCHANGED rcVars

\* The response (or the error) of agent a's request arrives: its evaluate()
\* settles, and so may Promise.all and evaluateCandidate.
HttpRespond(a, r) ==
    /\ http[a].st = "pending"
    /\ http' = [http EXCEPT ![a] = HttpDone(r)]
    /\ LET settled == [agent EXCEPT ![a] = AgentEvaluate(candidate, r)]
           ord == Append(order, a)
           next == EvaluateCandidateResume(PromiseAll(settled, ord))
       IN  /\ agent' = settled
           /\ order' = ord
           /\ IF ec_pc = "awaiting"
              THEN ec_pc' = next.pc /\ ec_result' = next.result
              ELSE UNCHANGED <<ec_pc, ec_result>>
    /\ UNCHANGED <<candidate>>
    /\ UNCHANGED dhVars
    /\ UNCHANGED srvVars
    /\ UNCHANGED rcVars

\* The endpoint accepted agent a's request and never answers it.  The
\* request carries no timeout, so no event follows.
HttpHang(a) ==
    /\ http[a].st = "pending"
    /\ http' = [http EXCEPT ![a] = HttpHung]
    /\ UNCHANGED <<candidate, ec_pc, agent, order, ec_result>>
    /\ UNCHANGED dhVars
    /\ UNCHANGED srvVars
    /\ UNCHANGED rcVars

-----------------------------------------------------------------------------
(* negotiateScores                                                         *)

JNull == [t |-> "null", n |-> 0, s |-> ""]

Score(e) == Get(e, "score")

\* The evaluation sets of this model carry scores that are numbers or
\* absent.  With an absent score the sum is NaN, and so is maxDiff; with an
\* absent entry `evaluations.x.score` throws inside the try block.
AllNumeric(evals) ==
    \A a \in Agents : a \in DOMAIN evals /\ Score(evals[a]).t = "num"

SumScores(evals) ==
    Score(evals["hr"]).n + Score(evals["manager"]).n + Score(evals["sales"]).n

Abs(x) == IF x < 0 THEN -x ELSE x

\* 3 * |score - avgScore| = |3 * score - sum|, in integers.  For integer
\* scores the double arithmetic of the code decides maxDiff > 2 exactly: a
\* deviation of exactly 2 has an integral mean, every other one is at least
\* 1/3 away from 2.
ThreeMaxDiff(evals) ==
    LET devs == {Abs(3 * Score(evals[a]).n - SumScores(evals)) : a \in Agents}
    IN  CHOOSE d \in devs : \A e \in devs : d >= e

\* Variant: maxDiff >= 2.
DiscrepancyAtLeast(evals) ==
    AllNumeric(evals) /\ ThreeMaxDiff(evals) >= 3 * NegotiationThreshold

\* Variant: a set that holds a default evaluation is never negotiated.
DiscrepancyAmongRealScores(evals) ==
    /\ AllNumeric(evals)
    /\ \A a \in Agents : Get(evals[a], "analysis").t # "errobj"
    /\ ThreeMaxDiff(evals) > 3 * NegotiationThreshold

\* if (maxDiff > 2); a comparison with NaN is false
Discrepancy(evals) ==
    AllNumeric(evals) /\ ThreeMaxDiff(evals) > 3 * NegotiationThreshold

\* The code after `await callSmartInference(...)`: the parsed object, or
\* null from the catch block.
NegotiateScoresResume(resp) ==
    LET inf == CallSmartInference(resp) IN
    IF ~inf.ok THEN JNull
    ELSE LET m == RegexExec(inf.text) IN
         IF m = <<>> THEN JNull
         ELSE LET p == JsonParse(m) IN
              IF p.ok THEN p.value ELSE JNull

Consensus(c) == [consensus_score |-> JNum(c), reasoning |-> JStr("weighed")]

MediatorTexts ==
    { <<Json(Consensus(c))>> : c \in 0..MaxConsensus }
    \cup
    { <<Prose>>,
      <<BadObj>>,
      <<Json([reasoning |-> JStr("weighed")])>>,
      <<Json([consensus_score |-> JStr("7"), reasoning |-> JStr("weighed")])>> }

MediatorResponses ==
    { NetError, HttpResp(500, "garbage", <<>>) }
    \cup { HttpResp(200, "text", t) : t \in MediatorTexts }

-----------------------------------------------------------------------------
(* decideHiring, generateFinalDecision, generateFollowUpQuestion           *)

\* model.generateContent(prompt) followed by result.response.text().  The
\* judge's text is a sequence of segments; the clarifier's text is a sequence
\* of chunks, each one a run of white space or a run of other characters.
GenError == [kind |-> "error", text |-> <<>>, str |-> <<>>]
GenText(t) == [kind |-> "ok", text |-> t, str |-> <<>>]
GenString(q) == [kind |-> "ok", text |-> <<>>, str |-> q]

\* The details block that the prompt of generateFinalDecision spells out for
\* the judge: each score, or 0 for a falsy one, and their mean.  The mean is
\* kept as the sum, that is in thirds, to stay within the integers.
ScoreOrZero(evals, a) ==
    IF a \in DOMAIN evals /\ Score(evals[a]).t = "num" THEN Score(evals[a]).n ELSE 0

PromptDetails(evals) ==
    [hr_score |-> JNum(ScoreOrZero(evals, "hr")),
     manager_score |-> JNum(ScoreOrZero(evals, "manager")),
     sales_score |-> JNum(ScoreOrZero(evals, "sales")),
     average_score |-> JNum(IF AllNumeric(evals) THEN SumScores(evals) ELSE 0)]

\* Confidence is written in hundredths: 80 stands for 0.8.
DecisionObj(outcome, confidence, details) ==
    [final_decision |-> JStr(outcome), confidence_score |-> JNum(confidence),
     reasoning |-> JStr("Judged."), details |-> details]

\* What the judge may answer to the prompt built from evals and neg.  Most
\* answers copy the details block of the prompt; the answer is free text, so
\* some do not.
JudgeTexts(evals, neg) ==
    LET D == JObj(PromptDetails(evals))
        WithConsensus ==
            JObj([k \in DOMAIN PromptDetails(evals) \cup {"consensus_score"} |->
                    IF k = "consensus_score" THEN Get(neg, "consensus_score")
                    ELSE PromptDetails(evals)[k]])
    IN  { <<Json(DecisionObj(o, 80, D))>> : o \in {"HIRE", "REJECT", "MAYBE", "PASS"} }
        \cup
        { <<Prose, Json(DecisionObj("HIRE", 100, D)), Prose>>,
          <<Json(DecisionObj("HIRE", 150, D))>>,
          <<Json([final_decision |-> JStr("REJECT"), reasoning |-> JStr("Judged."),
                  details |-> D])>>,
          <<Json([final_decision |-> JStr("MAYBE"), confidence_score |-> JNum(50),
                  details |-> D])>>,
          <<Json([final_decision |-> JStr("MAYBE"), confidence_score |-> JNum(50),
                  reasoning |-> JStr("Judged."), details |-> D,
                  follow_up_question |-> JStr("Asked by the judge?")])>>,
          <<Json([final_decision |-> JStr("HIRE"), confidence_score |-> JNum(80),
                  reasoning |-> JStr("Judged."), details |-> D,
                  follow_up_question |-> JStr("Asked by the judge?")])>>,
          <<Json(DecisionObj("HIRE", 80, JObj(EmptyObj)))>>,
          <<Json([final_decision |-> JStr("HIRE"), confidence_score |-> JNum(80),
                  reasoning |-> JStr("Judged.")])>>,
          <<Prose>>,
          <<BadObj>> }
        \cup
        { <<Json(DecisionObj("HIRE", 80, WithConsensus))>> :
            x \in IF Get(neg, "consensus_score").t = "num" THEN {1} ELSE {} }

JudgeResponses(evals, neg) ==
    {GenError} \cup { GenText(t) : t \in JudgeTexts(evals, neg) }

ClarifyResponses ==
    { GenError,
      GenString(<<"Which project did you lead?">>),
      GenString(<<" ", "Which project did you lead?", "\n">>),
      GenString(<<" ", "\n">>),
      GenString(<<>>) }

\* JSON.stringify(evaluations.x?.analysis).substring(0, 100) throws when the
\* analysis is undefined, be it for want of the entry or of its field.
PromptThrows(evals) ==
    \E a \in Agents : a \notin DOMAIN evals \/ Get(evals[a], "analysis").t = "undef"

\* The code of generateFinalDecision after `await model.generateContent`.
GenerateFinalDecisionResume(resp) ==
    IF resp.kind = "error" THEN JNull
    ELSE LET m == RegexExec(resp.text) IN
         IF m = <<>> THEN JNull
         ELSE LET p == JsonParse(m) IN
              IF p.ok THEN p.value ELSE JNull

\* String.prototype.trim on a text given as chunks
Whitespace == {" ", "\n"}

RECURSIVE TrimStart(_)
TrimStart(cs) ==
    IF cs # <<>> /\ Head(cs) \in Whitespace THEN TrimStart(Tail(cs)) ELSE cs

RECURSIVE TrimEnd(_)
TrimEnd(cs) ==
    IF cs # <<>> /\ cs[Len(cs)] \in Whitespace
    THEN TrimEnd(SubSeq(cs, 1, Len(cs) - 1))
    ELSE cs

Trim(cs) == TrimEnd(TrimStart(cs))

\* the string made of the chunks
RECURSIVE Concat(_)
Concat(cs) == IF cs = <<>> THEN "" ELSE Head(cs) \o Concat(Tail(cs))

\* The code of generateFollowUpQuestion after `await model.generateContent`:
\* result.response.text().trim(), or null from the catch block.
GenerateFollowUpQuestionResume(resp) ==
    IF resp.kind = "error" THEN JNull ELSE JStr(Concat(Trim(resp.str)))

Falsy(v) ==
    \/ v.t \in {"undef", "null"}
    \/ v.t = "str" /\ v.s = ""
    \/ v.t = "num" /\ v.n = 0

\* string conversion of the left operand of `reasoning += "..."`
ToStr(v) == IF v.t = "str" THEN v.s ELSE IF v.t = "undef" THEN "undefined" ELSE "null"

\* Variant: the catch block answers with a rejection.
FallbackDecisionReject(message) ==
    [final_decision |-> JStr("REJECT"), confidence_score |-> JNum(0),
     reasoning |-> JStr(message), error |-> JStr(message), details |-> JObj(EmptyObj)]

\* the neutral decision returned from the catch block of decideHiring
FallbackDecision(message) ==
    [final_decision |-> JStr("MAYBE"), confidence_score |-> JNum(50),
     reasoning |-> JStr("Decision could not be fully evaluated. Recommend manual review."),
     error |-> JStr(message), details |-> JObj(EmptyObj)]

NoRequest == [who |-> "none", st |-> "none"]
Request(who) == [who |-> who, st |-> "pending"]

\* what a capability that was not asked, or has not answered, has answered
NoAnswer == [kind |-> "none"]

\* NEGOTIATION_PROMPT with its placeholders replaced: per agent the score,
\* the recommendation and JSON.stringify(analysis)
NegotiationPrompt(evals) ==
    [a \in Agents |-> [score |-> Get(evals[a], "score"),
                       recommendation |-> Get(evals[a], "recommendation"),
                       analysis |-> Get(evals[a], "analysis")]]

\* JSON.stringify(analysis).substring(0, 100)
KeyInsight(analysis) == [first |-> 100, of |-> analysis]

\* The prompt of generateFinalDecision: per agent the score, the
\* recommendation and the key insight, then the consensus if there is one.
JudgePrompt(evals, neg) ==
    [entries |-> [a \in Agents |->
                    [score |-> Get(evals[a], "score"),
                     recommendation |-> Get(evals[a], "recommendation"),
                     insight |-> KeyInsight(Get(evals[a], "analysis"))]],
     consensus |-> IF neg = JNull \/ neg = Nothing THEN Nothing
                   ELSE [consensus_score |-> Get(neg, "consensus_score"),
                         reasoning |-> Get(neg, "reasoning")]]

\* The prompt of generateFollowUpQuestion
FollowUpPrompt(evals) == JudgePrompt(evals, JNull).entries

\* The frame of decideHiring as one record.
Frame == [pc |-> dh_pc, gen |-> gen, calls |-> calls,
          neg |-> negotiationResult, decision |-> decision, prompts |-> prompts]

Return(f, d) == [f EXCEPT !.pc = "returned", !.gen = NoRequest, !.decision = d]

\* Variant: decideHiring without its catch block.
DecideHiringRethrow(f, message) == [f EXCEPT !.pc = "threw", !.gen = NoRequest]

\* catch (error) of decideHiring: the neutral decision is returned
DecideHiringCatch(f, message) == Return(f, FallbackDecision(message))

\* Variant: the follow-up question is never attached.
AfterFollowUpDropped(f, followUp) == Return(f, f.decision)

\* Variant: the sentence is appended whether or not a question came back.
AfterFollowUpAlwaysAppends(f, followUp) ==
    Return(f,
      [k \in DOMAIN f.decision \cup {"reasoning"}
                \cup (IF Falsy(followUp) THEN {} ELSE {"follow_up_question"}) |->
         IF k = "follow_up_question" THEN followUp
         ELSE IF k = "reasoning"
         THEN JStr(ToStr(Get(f.decision, "reasoning"))
                   \o " A follow-up question is recommended to clarify ambiguities.")
         ELSE f.decision[k]])

\* step 3 once generateFollowUpQuestion has returned followUp
AfterFollowUp(f, followUp) ==
    IF Falsy(followUp)
    THEN Return(f, f.decision)
    ELSE Return(f,
           [k \in DOMAIN f.decision \cup {"follow_up_question", "reasoning"} |->
              IF k = "follow_up_question" THEN followUp
              ELSE IF k = "reasoning"
              THEN JStr(ToStr(Get(f.decision, "reasoning"))
                        \o " A follow-up question is recommended to clarify ambiguities.")
              ELSE f.decision[k]])

\* Variant: a missing decision is replaced by the neutral one inside the
\* try block, and step 3 goes on with it.
AfterFinalDecisionClarifiesFallback(f, evals, d) ==
    LET e == IF d = JNull THEN FallbackDecision("Cannot read properties of null") ELSE d
    IN  IF Get(e, "final_decision") = JStr("MAYBE") /\ Falsy(Get(e, "follow_up_question"))
        THEN IF PromptThrows(evals)
             THEN AfterFollowUp([f EXCEPT !.decision = e], JNull)
             ELSE [f EXCEPT !.pc = "clarifying", !.gen = Request("clarify"),
                            !.calls.clarify = @ + 1, !.decision = e]
        ELSE Return(f, e)

\* steps 3 and on, once generateFinalDecision has returned d
AfterFinalDecision(f, evals, d) ==
    IF d = JNull
    THEN DecideHiringCatch(f, "Cannot read properties of null")
    ELSE IF Get(d, "final_decision") = JStr("MAYBE") /\ Falsy(Get(d, "follow_up_question"))
    THEN IF PromptThrows(evals)
         THEN AfterFollowUp([f EXCEPT !.decision = d], JNull)
         ELSE [f EXCEPT !.pc = "clarifying", !.gen = Request("clarify"),
                        !.calls.clarify = @ + 1, !.decision = d,
                        !.prompts.clarify = FollowUpPrompt(evals)]
    ELSE Return(f, d)

\* step 2 and on, once negotiateScores has returned neg
AfterNegotiation(f, evals, neg) ==
    LET g == [f EXCEPT !.neg = neg]
    IN  IF PromptThrows(evals)
        THEN AfterFinalDecision(g, evals, JNull)
        ELSE [g EXCEPT !.pc = "judging", !.gen = Request("judge"),
                       !.calls.judge = @ + 1,
                       !.prompts.judge = JudgePrompt(evals, neg)]

\* Variant: the judge is asked without awaiting the mediator.
DecideHiringEnterNoAwait(f, evals) ==
    IF Discrepancy(evals)
    THEN [f EXCEPT !.pc = "negotiating", !.gen = Request("mediator"),
                   !.calls.mediator = @ + 1, !.calls.judge = @ + 1]
    ELSE AfterNegotiation(f, evals, JNull)

\* decideHiring(evals) from its call: negotiateScores up to its await, or
\* through it when there is no discrepancy
DecideHiringEnter(f, evals) ==
    IF Discrepancy(evals)
    THEN [f EXCEPT !.pc = "negotiating", !.gen = Request("mediator"),
                   !.calls.mediator = @ + 1,
                   !.prompts.mediator = NegotiationPrompt(evals)]
    ELSE AfterNegotiation(f, evals, JNull)

SetFrame(f) ==
    /\ dh_pc' = f.pc
    /\ gen' = f.gen
    /\ calls' = f.calls
    /\ negotiationResult' = f.neg
    /\ decision' = f.decision
    /\ prompts' = f.prompts

\* The evaluation sets /decide hands over: each entry is an agent's object
\* or the default evaluation.  One more argument lacks two of the entries.
DecideEntries ==
    { EvalObj(s, "YES") : s \in MinNegScore..MaxNegScore }
    \cup
    { Placeholder("ECONNRESET"),
      [recommendation |-> JStr("YES"), analysis |-> JStr("assessment")],
      [score |-> JNum(MaxNegScore), recommendation |-> JStr("YES")] }

EvaluationSets ==
    [Agents -> DecideEntries] \cup {[a \in {"hr"} |-> EvalObj(MaxNegScore, "YES")]}

DecideHiringCall(evals) ==
    /\ dh_pc = "idle"
    /\ dh_evals' = evals
    /\ SetFrame(DecideHiringEnter(Frame, evals))
    /\ UNCHANGED <<answers>>
    /\ UNCHANGED ecVars
    /\ UNCHANGED srvVars
    /\ UNCHANGED rcVars

MediatorRespond(r) ==
    /\ dh_pc = "negotiating" /\ gen = Request("mediator")
    /\ SetFrame(AfterNegotiation(Frame, dh_evals, NegotiateScoresResume(r)))
    /\ answers' = [answers EXCEPT !.mediator = r]
    /\ UNCHANGED <<dh_evals>>
    /\ UNCHANGED ecVars
    /\ UNCHANGED srvVars
    /\ UNCHANGED rcVars

JudgeRespond(r) ==
    /\ dh_pc = "judging" /\ gen = Request("judge")
    /\ SetFrame(AfterFinalDecision(Frame, dh_evals, GenerateFinalDecisionResume(r)))
    /\ answers' = [answers EXCEPT !.judge = r]
    /\ UNCHANGED <<dh_evals>>
    /\ UNCHANGED ecVars
    /\ UNCHANGED srvVars
    /\ UNCHANGED rcVars

ClarifyRespond(r) ==
    /\ dh_pc = "clarifying" /\ gen = Request("clarify")
    /\ SetFrame(AfterFollowUp(Frame, GenerateFollowUpQuestionResume(r)))
    /\ answers' = [answers EXCEPT !.clarify = r]
    /\ UNCHANGED <<dh_evals>>
    /\ UNCHANGED ecVars
    /\ UNCHANGED srvVars
    /\ UNCHANGED rcVars

\* The capability never answers the outstanding request; no call of
\* decideHiring carries a timeout.
CapabilityHang ==
    /\ gen.st = "pending"
    /\ gen' = [gen EXCEPT !.st = "hung"]
    /\ UNCHANGED <<dh_pc, dh_evals, calls, negotiationResult, decision, answers, prompts>>
    /\ UNCHANGED ecVars
    /\ UNCHANGED srvVars
    /\ UNCHANGED rcVars


-----------------------------------------------------------------------------
(* server.js: the session of one candidate behind the HTTP API.  Each      *)
(* handler is cut at its awaits; between two awaits of one request the     *)
(* callbacks of another request may run.  A call on the database handle    *)
(* db either completes or raises.  The handlers see the cache as a store   *)
(* that answers and keeps its entries for the length of the run; the cache *)
(* module with its fallback and its timers follows further down.           *)

Slots == 1..MaxConcurrent

CandidateId == "c1"
CandidateKey == "candidate:" \o CandidateId
SessionKey == "session:" \o CandidateId

\* JSON.stringify leaves out the keys whose value is undefined; JSON.parse
\* gives back the object that was written.
Stringify(o) == [json |-> [k \in {x \in DOMAIN o : o[x] # Undefined} |-> o[k]]]
Parse(str) == str.json

\* getRedis(key): the string, or null
GetRedis(c, key) == IF key \in DOMAIN c THEN c[key] ELSE JNull

\* setRedis(key, value, ttl)
SetRedis(c, key, value) ==
    [k \in DOMAIN c \cup {key} |-> IF k = key THEN value ELSE c[k]]

CandidateRecord == [id |-> JStr(CandidateId), status |-> JStr("pending")]

\* the session object /upload and /evaluate build (created_at left out)
NewSession(status) ==
    [candidate_id |-> JStr(CandidateId), status |-> JStr(status),
     evaluations |-> EmptyObj, decision |-> JNull]

\* What evaluateCandidate may hand back to /evaluate, and decideHiring to
\* /decide.
ServerEvaluationSets ==
    { BuildEvaluations(<<EvalObj(MaxNegScore, "YES"), EvalObj(MaxNegScore, "YES"),
                         EvalObj(MaxNegScore, "YES")>>),
      BuildEvaluations(<<Placeholder("ECONNRESET"), EvalObj(MaxNegScore, "YES"),
                         EvalObj(MaxNegScore, "YES")>>) }

ServerDecisions(evals) ==
    { DecisionObj("HIRE", 80, JObj(PromptDetails(evals))),
      FallbackDecision("Cannot read properties of null") }

AllServerDecisions == UNION { ServerDecisions(evals) : evals \in ServerEvaluationSets }

\* id is the serial number of the request the slot holds
IdleRequest == [id |-> 0, op |-> "none", pc |-> "idle", session |-> Nothing, res |-> Nothing]
Res(code, body) == [code |-> code, body |-> body]

Accepts(r) == req[r].pc \in {"idle", "done"} /\ started < MaxRequests

Begin(r, op, pc, session) ==
    /\ req' = [req EXCEPT ![r] = [id |-> started + 1, op |-> op, pc |-> pc,
                                  session |-> session, res |-> Nothing]]
    /\ started' = started + 1

Answer(r, op, code, body) ==
    req' = [req EXCEPT ![r] = [id |-> IF req[r].pc \in {"idle", "done"}
                                      THEN started + 1 ELSE req[r].id,
                               op |-> op, pc |-> "done", session |-> Nothing,
                               res |-> Res(code, body)]]

\* POST /api/candidates/upload up to `await db.saveCandidateQuery`.  uuidv4
\* gives every upload its own id, so the id of this model is uploaded once.
UploadRequest(r, valid) ==
    /\ Accepts(r)
    /\ CandidateId \notin db.candidates
    /\ \A q \in Slots : ~(req[q].op = "upload" /\ req[q].pc = "saveCandidate")
    /\ IF valid
       THEN Begin(r, "upload", "saveCandidate", Nothing)
       ELSE Answer(r, "upload", 400, JStr("Missing required fields"))
            /\ started' = started + 1
    /\ UNCHANGED <<cache, db>>
    /\ UNCHANGED ecVars /\ UNCHANGED dhVars /\ UNCHANGED rcVars

\* /upload once saveCandidateQuery has settled: the candidate and the fresh
\* session are cached, or the error is answered.
UploadSaved(r, ok) ==
    /\ req[r].op = "upload" /\ req[r].pc = "saveCandidate"
    /\ IF ok
       THEN /\ db' = [db EXCEPT !.candidates = @ \cup {CandidateId}]
            /\ cache' = SetRedis(SetRedis(cache, CandidateKey, Stringify(CandidateRecord)),
                                 SessionKey, Stringify(NewSession("ready_to_evaluate")))
            /\ Answer(r, "upload", 200, JStr(CandidateId))
       ELSE /\ UNCHANGED <<cache, db>>
            /\ Answer(r, "upload", 500, JStr("insert failed"))
    /\ UNCHANGED started
    /\ UNCHANGED ecVars /\ UNCHANGED dhVars /\ UNCHANGED rcVars

\* POST /:candidateId/evaluate up to `await evaluateCandidate`: the candidate
\* is looked up in the cache, then in the database.
EvaluateRequest(r, dbOk) ==
    /\ Accepts(r)
    /\ IF GetRedis(cache, CandidateKey) # JNull
       THEN Begin(r, "evaluate", "evaluating", NewSession("evaluating"))
       ELSE IF ~dbOk
       THEN Answer(r, "evaluate", 500, JStr("select failed")) /\ started' = started + 1
       ELSE IF CandidateId \in db.candidates
       THEN Begin(r, "evaluate", "evaluating", NewSession("evaluating"))
       ELSE Answer(r, "evaluate", 404, JStr("Candidate not found")) /\ started' = started + 1
    /\ UNCHANGED <<cache, db>>
    /\ UNCHANGED ecVars /\ UNCHANGED dhVars /\ UNCHANGED rcVars

\* /evaluate once evaluateCandidate has returned evals
EvaluateFanIn(r, evals) ==
    /\ req[r].op = "evaluate" /\ req[r].pc = "evaluating"
    /\ req' = [req EXCEPT ![r].pc = "saveEvaluations",
                          ![r].session = [@ EXCEPT !.evaluations = evals]]
    /\ UNCHANGED <<cache, db, started>>
    /\ UNCHANGED ecVars /\ UNCHANGED dhVars /\ UNCHANGED rcVars

\* the rows saveEvaluationsQuery inserts, one per entry and in their order
EvaluationRows(evals) ==
    LET keys == SelectSeq(AgentOrder, LAMBDA a : a \in DOMAIN evals)
    IN  [i \in 1..Len(keys) |-> <<keys[i], evals[keys[i]]>>]

\* Variant: the session is cached before the insert is awaited.
EvaluateSavedCachesFirst(r, n) ==
    /\ req[r].op = "evaluate" /\ req[r].pc = "saveEvaluations"
    /\ LET rows == EvaluationRows(req[r].session.evaluations)
       IN  /\ n <= Len(rows)
           /\ db' = [db EXCEPT !.evaluations = @ \o SubSeq(rows, 1, n)]
           /\ cache' = SetRedis(cache, SessionKey, Stringify(req[r].session))
           /\ IF n = Len(rows)
              THEN Answer(r, "evaluate", 200, req[r].session.evaluations)
              ELSE Answer(r, "evaluate", 500, JStr("insert failed"))
    /\ UNCHANGED started
    /\ UNCHANGED ecVars /\ UNCHANGED dhVars /\ UNCHANGED rcVars

\* /evaluate once saveEvaluationsQuery has settled, after n rows went in:
\* with all of them in the session is cached, else the error is answered.
EvaluateSaved(r, n) ==
    /\ req[r].op = "evaluate" /\ req[r].pc = "saveEvaluations"
    /\ LET rows == EvaluationRows(req[r].session.evaluations)
       IN  /\ n <= Len(rows)
           /\ db' = [db EXCEPT !.evaluations = @ \o SubSeq(rows, 1, n)]
           /\ IF n = Len(rows)
              THEN /\ cache' = SetRedis(cache, SessionKey, Stringify(req[r].session))
                   /\ Answer(r, "evaluate", 200, req[r].session.evaluations)
              ELSE /\ UNCHANGED cache
                   /\ Answer(r, "evaluate", 500, JStr("insert failed"))
    /\ UNCHANGED started
    /\ UNCHANGED ecVars /\ UNCHANGED dhVars /\ UNCHANGED rcVars

\* Variant: /decide without the test for empty evaluations.
DecideRequestUnchecked(r) ==
    /\ Accepts(r)
    /\ LET sessionStr == GetRedis(cache, SessionKey) IN
       IF sessionStr = JNull
       THEN Answer(r, "decide", 404, JStr("Session not found")) /\ started' = started + 1
       ELSE Begin(r, "decide", "deciding", Parse(sessionStr))
    /\ UNCHANGED <<cache, db>>
    /\ UNCHANGED ecVars /\ UNCHANGED dhVars /\ UNCHANGED rcVars

\* POST /:candidateId/decide up to `await decideHiring`
DecideRequest(r) ==
    /\ Accepts(r)
    /\ LET sessionStr == GetRedis(cache, SessionKey) IN
       IF sessionStr = JNull
       THEN Answer(r, "decide", 404, JStr("Session not found")) /\ started' = started + 1
       ELSE IF DOMAIN Parse(sessionStr).evaluations = {}
       THEN Answer(r, "decide", 400, JStr("No evaluations found")) /\ started' = started + 1
       ELSE Begin(r, "decide", "deciding", Parse(sessionStr))
    /\ UNCHANGED <<cache, db>>
    /\ UNCHANGED ecVars /\ UNCHANGED dhVars /\ UNCHANGED rcVars

\* Variant: the decision is stored and the status left as it was.
DecideDecidedKeepsStatus(r, d) ==
    /\ req[r].op = "decide" /\ req[r].pc = "deciding"
    /\ d \in ServerDecisions(req[r].session.evaluations)
    /\ req' = [req EXCEPT ![r].pc = "saveDecision",
                          ![r].session = [@ EXCEPT !.decision = d]]
    /\ UNCHANGED <<cache, db, started>>
    /\ UNCHANGED ecVars /\ UNCHANGED dhVars /\ UNCHANGED rcVars

\* /decide once decideHiring has returned d
DecideDecided(r, d) ==
    /\ req[r].op = "decide" /\ req[r].pc = "deciding"
    /\ d \in ServerDecisions(req[r].session.evaluations)
    /\ req' = [req EXCEPT ![r].pc = "saveDecision",
                          ![r].session = [@ EXCEPT !.decision = d,
                                                   !.status = JStr("completed")]]
    /\ UNCHANGED <<cache, db, started>>
    /\ UNCHANGED ecVars /\ UNCHANGED dhVars /\ UNCHANGED rcVars

\* /decide once saveDecisionQuery has settled
DecideSaved(r, ok) ==
    /\ req[r].op = "decide" /\ req[r].pc = "saveDecision"
    /\ IF ok
       THEN /\ db' = [db EXCEPT !.decisions = Append(@, req[r].session.decision)]
            /\ cache' = SetRedis(cache, SessionKey, Stringify(req[r].session))
            /\ Answer(r, "decide", 200, req[r].session.decision)
       ELSE /\ UNCHANGED <<cache, db>>
            /\ Answer(r, "decide", 500, JStr("insert failed"))
    /\ UNCHANGED started
    /\ UNCHANGED ecVars /\ UNCHANGED dhVars /\ UNCHANGED rcVars

\* GET /:candidateId/status
StatusRequest(r) ==
    /\ Accepts(r)
    /\ LET sessionStr == GetRedis(cache, SessionKey) IN
       IF sessionStr = JNull
       THEN Answer(r, "status", 404, JStr("Session not found"))
       ELSE LET session == Parse(sessionStr) IN
            Answer(r, "status", 200,
                   [status |-> session.status,
                    evaluations_count |-> JNum(Cardinality(DOMAIN session.evaluations)),
                    has_decision |-> session.decision # JNull])
    /\ started' = started + 1
    /\ UNCHANGED <<cache, db>>
    /\ UNCHANGED ecVars /\ UNCHANGED dhVars /\ UNCHANGED rcVars

\* GET /:candidateId/result
ResultRequest(r) ==
    /\ Accepts(r)
    /\ LET candidateStr == GetRedis(cache, CandidateKey)
           sessionStr == GetRedis(cache, SessionKey)
       IN  IF candidateStr = JNull \/ sessionStr = JNull
           THEN Answer(r, "result", 404, JStr("Candidate or session not found"))
           ELSE Answer(r, "result", 200,
                       [candidate |-> Parse(candidateStr), session |-> Parse(sessionStr)])
    /\ started' = started + 1
    /\ UNCHANGED <<cache, db>>
    /\ UNCHANGED ecVars /\ UNCHANGED dhVars /\ UNCHANGED rcVars


-----------------------------------------------------------------------------
(* redis.js: setRedis, getRedis and deleteRedis over the Redis client and  *)
(* the in-memory Map.  redisClient is assigned by createClient before      *)
(* connect is awaited, so a failed connect leaves a closed client behind,  *)
(* every command of which raises; on an open client a command either       *)
(* completes or raises.                                                    *)

CacheKeys == {SessionKey, CandidateKey}

\* the strings /upload and /evaluate put under the session key
CacheValues ==
    { Stringify(NewSession("ready_to_evaluate")), Stringify(NewSession("evaluating")) }

NoSet == [value |-> JNull, at |-> -1]
NoGet == [key |-> "", value |-> JNull, at |-> -1]

Without(m, key) == [k \in DOMAIN m \ {key} |-> m[k]]

\* every callback setRedis can schedule within a run
AllTimers == [key : CacheKeys, due : 0..(MaxTime + CacheTtl)]

\* memoryCache.get(key) || null
MemoryGet(key) == IF key \in DOMAIN memoryCache THEN memoryCache[key] ELSE JNull

\* GET on the server: the value while the key has not expired
RedisGet(key) ==
    IF key \in DOMAIN redisStore /\ now < redisStore[key].due
    THEN redisStore[key].value ELSE JNull

\* the command is sent to an open client and completes
Completes(ok) == redisClient = "open" /\ ok

\* initializeRedis: createClient raises ("no client"), connect or ping
\* rejects ("connect failed"), or the client is ready
InitializeRedis(outcome) ==
    /\ redisClient = "uninitialized"
    /\ redisClient' = CASE outcome = "no client" -> "undefined"
                        [] outcome = "connect failed" -> "closed"
                        [] OTHER -> "open"
    /\ UNCHANGED <<redisStore, memoryCache, timers, now, lastSet, lastGet>>
    /\ UNCHANGED ecVars /\ UNCHANGED dhVars /\ UNCHANGED srvVars

\* setRedis(key, value, CacheTtl)
SetRedisCall(key, value, ok) ==
    /\ redisClient # "uninitialized"
    /\ IF redisClient = "undefined"
       THEN /\ memoryCache' = SetRedis(memoryCache, key, value)
            /\ timers' = timers \cup {[key |-> key, due |-> now + CacheTtl]}
            /\ UNCHANGED redisStore
       ELSE IF Completes(ok)
       THEN /\ redisStore' = SetRedis(redisStore, key, [value |-> value, due |-> now + CacheTtl])
            /\ UNCHANGED <<memoryCache, timers>>
       ELSE /\ memoryCache' = SetRedis(memoryCache, key, value)
            /\ UNCHANGED <<redisStore, timers>>
    /\ lastSet' = [lastSet EXCEPT ![key] = [value |-> value, at |-> now]]
    /\ lastGet' = NoGet
    /\ UNCHANGED <<redisClient, now>>
    /\ UNCHANGED ecVars /\ UNCHANGED dhVars /\ UNCHANGED srvVars

\* getRedis(key)
GetRedisCall(key, ok) ==
    /\ redisClient # "uninitialized"
    /\ lastGet' = [key |-> key,
                   value |-> IF redisClient = "undefined" THEN MemoryGet(key)
                             ELSE IF Completes(ok) THEN RedisGet(key)
                             ELSE MemoryGet(key),
                   at |-> now]
    /\ UNCHANGED <<redisClient, redisStore, memoryCache, timers, now, lastSet>>
    /\ UNCHANGED ecVars /\ UNCHANGED dhVars /\ UNCHANGED srvVars

\* deleteRedis(key)
DeleteRedisCall(key, ok) ==
    /\ redisClient # "uninitialized"
    /\ IF redisClient # "undefined" /\ Completes(ok)
       THEN /\ redisStore' = Without(redisStore, key)
            /\ UNCHANGED memoryCache
       ELSE /\ memoryCache' = Without(memoryCache, key)
            /\ UNCHANGED redisStore
    /\ lastSet' = [lastSet EXCEPT ![key] = NoSet]
    /\ lastGet' = NoGet
    /\ UNCHANGED <<redisClient, timers, now>>
    /\ UNCHANGED ecVars /\ UNCHANGED dhVars /\ UNCHANGED srvVars

\* setTimeout(() => memoryCache.delete(key), expirationSeconds * 1000)
TimerFire(t) ==
    /\ t \in timers
    /\ now >= t.due
    /\ timers' = timers \ {t}
    /\ memoryCache' = Without(memoryCache, t.key)
    /\ UNCHANGED <<redisClient, redisStore, now, lastSet, lastGet>>
    /\ UNCHANGED ecVars /\ UNCHANGED dhVars /\ UNCHANGED srvVars

\* Time passes once the callbacks that are due have run.
Tick ==
    /\ now < MaxTime
    /\ \A t \in timers : t.due > now
    /\ now' = now + 1
    /\ UNCHANGED <<redisClient, redisStore, memoryCache, timers, lastSet, lastGet>>
    /\ UNCHANGED ecVars /\ UNCHANGED dhVars /\ UNCHANGED srvVars

-----------------------------------------------------------------------------
Init ==
    /\ candidate = NoCandidate
    /\ ec_pc = "idle"
    /\ http = [a \in Agents |-> HttpIdle]
    /\ agent = [a \in Agents |-> Pending]
    /\ order = <<>>
    /\ ec_result = NoResult
    /\ dh_pc = "idle"
    /\ dh_evals = Nothing
    /\ gen = NoRequest
    /\ calls = [mediator |-> 0, judge |-> 0, clarify |-> 0]
    /\ negotiationResult = Nothing
    /\ decision = Nothing
    /\ answers = [mediator |-> NoAnswer, judge |-> NoAnswer, clarify |-> NoAnswer]
    /\ prompts = [mediator |-> Nothing, judge |-> Nothing, clarify |-> Nothing]
    /\ cache = EmptyObj
    /\ db = [candidates |-> {}, evaluations |-> <<>>, decisions |-> <<>>]
    /\ req = [r \in Slots |-> IdleRequest]
    /\ started = 0
    /\ redisClient = "uninitialized"
    /\ redisStore = EmptyObj
    /\ memoryCache = EmptyObj
    /\ timers = {}
    /\ now = 0
    /\ lastSet = [k \in CacheKeys |-> NoSet]
    /\ lastGet = NoGet

Next ==
    \/ \E c \in Candidates : EvaluateCandidateCall(c)
    \/ \E a \in Agents, r \in Responses : HttpRespond(a, r)
    \/ \E a \in Agents : HttpHang(a)

Spec == Init /\ [][Next]_vars

\* The event loop runs every callback that is ready.
FairSpec == Spec /\ WF_vars(Next)

DecideNext ==
    \/ \E evals \in EvaluationSets : DecideHiringCall(evals)
    \/ \E r \in MediatorResponses : MediatorRespond(r)
    \/ \E r \in JudgeResponses(dh_evals, negotiationResult) : JudgeRespond(r)
    \/ \E r \in ClarifyResponses : ClarifyRespond(r)
    \/ CapabilityHang

DecideSpec == Init /\ [][DecideNext]_vars

ServerNext ==
    \/ \E r \in Slots, valid \in BOOLEAN : UploadRequest(r, valid)
    \/ \E r \in Slots, ok \in BOOLEAN : UploadSaved(r, ok)
    \/ \E r \in Slots, dbOk \in BOOLEAN : EvaluateRequest(r, dbOk)
    \/ \E r \in Slots, evals \in ServerEvaluationSets : EvaluateFanIn(r, evals)
    \/ \E r \in Slots, n \in 0..Len(AgentOrder) : EvaluateSaved(r, n)
    \/ \E r \in Slots : DecideRequest(r)
    \/ \E r \in Slots, d \in AllServerDecisions : DecideDecided(r, d)
    \/ \E r \in Slots, ok \in BOOLEAN : DecideSaved(r, ok)
    \/ \E r \in Slots : StatusRequest(r)
    \/ \E r \in Slots : ResultRequest(r)

ServerSpec == Init /\ [][ServerNext]_vars

CacheNext ==
    \/ \E outcome \in {"no client", "connect failed", "ready"} : InitializeRedis(outcome)
    \/ \E key \in CacheKeys, value \in CacheValues, ok \in BOOLEAN :
          SetRedisCall(key, value, ok)
    \/ \E key \in CacheKeys, ok \in BOOLEAN : GetRedisCall(key, ok)
    \/ \E key \in CacheKeys, ok \in BOOLEAN : DeleteRedisCall(key, ok)
    \/ \E t \in AllTimers : TimerFire(t)
    \/ Tick

CacheSpec == Init /\ [][CacheNext]_vars

-----------------------------------------------------------------------------
(* Properties of evaluateCandidate.                                        *)

Labels == {"STRONG_YES", "YES", "MAYBE", "NO"}

Returned == ec_pc = "returned"
Entry(a) == ec_result.value[a]
Answered(a) == http[a].st = "done"

\* The invocation failed: network error, non-2xx status, or a response that
\* holds no parseable JSON object.
FailedInvocation(r) ==
    \/ r.kind = "error"
    \/ r.kind = "http" /\ ~(r.status >= 200 /\ r.status < 300)
    \/ r.kind = "http" /\ r.body # "text"
    \/ r.kind = "http" /\ r.body = "text"
         /\ \A i \in 1..Len(r.text) : r.text[i].k # "json"

FailureCauses(r) ==
    IF r.kind = "error" THEN {"ECONNRESET"}
    ELSE IF ~(r.status >= 200 /\ r.status < 300)
    THEN {"Request failed with status code"}
    ELSE IF r.body = "garbage"
    THEN {"Failed to parse JSON response from SmartInference"}
    ELSE {"Invalid JSON response format from agent", "SyntaxError: Unexpected token"}

IsPlaceholder(e) ==
    /\ DOMAIN e = {"score", "recommendation", "analysis"}
    /\ e.score = JNum(5)
    /\ e.recommendation = JStr("MAYBE")
    /\ e.analysis.t = "errobj"

\* C1: whichever evaluators fail (network error, non-2xx status, no
\* parseable JSON object), evaluateCandidate does not raise and returns a
\* mapping with exactly the keys hr, manager and sales in which every failed
\* evaluator's entry is the placeholder: score 5, MAYBE, and a rationale
\* recording the cause of the failure.
C1_PlaceholderOnFailure ==
    /\ ec_pc # "threw"
    /\ Returned =>
        /\ DOMAIN ec_result.value = Agents
        /\ \A a \in Agents :
            (Answered(a) /\ FailedInvocation(http[a].resp)) =>
                /\ IsPlaceholder(Entry(a))
                /\ Entry(a).analysis.s \in FailureCauses(http[a].resp)

C1_Witness ==
    /\ Returned
    /\ \E a, b \in Agents :
        /\ Answered(a) /\ FailedInvocation(http[a].resp)
        /\ Answered(b) /\ ~FailedInvocation(http[b].resp)
        /\ IsPlaceholder(Entry(a)) /\ ~IsPlaceholder(Entry(b))

\* C2: evaluateCandidate returns (or fails) only when all three evaluator
\* invocations have resolved, with a result or with the placeholder: never
\* while an invocation of the round is outstanding, neither after the first
\* failure nor after the first success.
C2_FanInWaitsForAll ==
    ec_pc \in {"returned", "threw"} =>
        \A a \in Agents :
            /\ agent[a].status = "fulfilled"
            /\ http[a].st \notin {"pending", "hung"}

\* the evaluator that completed first had failed, the last one succeeded
C2_Witness ==
    /\ Returned
    /\ Len(order) = 3
    /\ Answered(order[1]) /\ FailedInvocation(http[order[1]].resp)
    /\ Answered(order[3]) /\ ~FailedInvocation(http[order[3]].resp)

\* C3: the entry returned for evaluator X is decided by X's own response
\* alone, whatever the other evaluators do (succeed, fail, answer malformed
\* text); X's promise settles on X's own response and on nothing else, so a
\* failure of another evaluator neither cancels X's invocation nor replaces
\* X's result.
C3_FailureIsolation ==
    /\ \A a \in Agents :
        (candidate.cvIsString /\ agent[a].status # "pending") => Answered(a)
    /\ \A a \in Agents :
        Answered(a) => agent[a] = AgentEvaluate(candidate, http[a].resp)
    /\ Returned =>
        \A a \in Agents :
            Answered(a) => Entry(a) = AgentEvaluate(candidate, http[a].resp).value

\* one evaluator failed and the two others' own objects are returned
C3_Witness ==
    /\ Returned
    /\ \E a \in Agents :
        /\ Answered(a) /\ FailedInvocation(http[a].resp)
        /\ \A b \in Agents \ {a} :
            /\ Answered(b) /\ ~FailedInvocation(http[b].resp)
            /\ http[b].resp.text = <<Json(Entry(b))>>
        /\ \E b, c \in Agents \ {a} : Entry(b) # Entry(c)

\* C4: every evaluator invocation is time-bounded: an evaluator whose
\* capability never responds is given the placeholder after its own
\* timeout, and evaluateCandidate eventually returns a complete set.
C4_TimeBounded ==
    \A a \in Agents :
        (http[a].st = "hung") ~> (Returned /\ IsPlaceholder(Entry(a)))

\* The response text holds an object that parses but has no numeric score or
\* a recommendation outside the four labels.
ParsesToMalformed(r) ==
    /\ CallSmartInference(r).ok
    /\ LET m == RegexExec(CallSmartInference(r).text)
       IN  /\ m # <<>>
           /\ JsonParse(m).ok
           /\ LET o == JsonParse(m).value
              IN  \/ Get(o, "score").t # "num"
                  \/ Get(o, "recommendation") \notin {JStr(l) : l \in Labels}

\* C5: an object that parses but lacks a numeric score, or carries a
\* recommendation outside STRONG_YES/YES/MAYBE/NO, is treated as a failure:
\* the entry returned for that evaluator is the placeholder.
C5_MalformedIsPlaceholder ==
    Returned =>
        \A a \in Agents :
            (Answered(a) /\ ParsesToMalformed(http[a].resp)) => IsPlaceholder(Entry(a))

\* C6: every entry of a returned EvaluationSet has a score that is present,
\* numeric and within 1..10.
C6_ScoreInRange ==
    Returned =>
        \A a \in Agents :
            /\ Get(Entry(a), "score").t = "num"
            /\ Get(Entry(a), "score").n \in ScoreMin..ScoreMax

\* C7: whatever the order in which the three invocations complete, the
\* result of the HR evaluator is stored under hr, the Manager's under
\* manager and the Sales evaluator's under sales.
C7_KeysIndependentOfOrder ==
    Returned => \A a \in Agents : Entry(a) = agent[a].value

\* the evaluators completed in the reverse of the array order, with three
\* different results
C7_Witness ==
    /\ Returned
    /\ order = <<"sales", "manager", "hr">>
    /\ Entry("hr") # Entry("manager")
    /\ Entry("manager") # Entry("sales")
    /\ Entry("hr") # Entry("sales")

-----------------------------------------------------------------------------
(* Properties of negotiateScores within decideHiring.                      *)

ScoreOf(a) == Score(dh_evals[a]).n

\* maxDeviation = max |score - mean| exceeds 2, with mean = sum / 3
MaxDeviationExceedsTwo ==
    \E a \in Agents :
        Abs(3 * ScoreOf(a) - (ScoreOf("hr") + ScoreOf("manager") + ScoreOf("sales"))) > 6

ScoresDifferByMoreThanOneAndAHalf ==
    \E a, b \in Agents : 2 * (ScoreOf(a) - ScoreOf(b)) > 3

\* C9: the Decision Engine triggers the mini-negotiation whenever the
\* agents' scores differ by more than 1.5 points and skips it otherwise
\* (scores 8, 8, 6 differ by 2 points and trigger a negotiation).
C9_NegotiationAboveOneAndAHalf ==
    (dh_pc # "idle" /\ AllNumeric(dh_evals)) =>
        (calls.mediator = 1 <=> ScoresDifferByMoreThanOneAndAHalf)

\* C10: whenever negotiateScores returns a consensus (a non-null value), its
\* consensus_score is a number in [1, 10].
C10_ConsensusInRange ==
    (negotiationResult # Nothing /\ negotiationResult # JNull) =>
        /\ Get(negotiationResult, "consensus_score").t = "num"
        /\ Get(negotiationResult, "consensus_score").n \in ScoreMin..ScoreMax

-----------------------------------------------------------------------------
(* Properties of decideHiring.                                             *)

DecisionReturned == dh_pc = "returned"

MediatorAnswered == answers.mediator # NoAnswer
JudgeAnswered == answers.judge # NoAnswer
ClarifierAnswered == answers.clarify # NoAnswer

\* The judgment capability failed entirely: invocation error, or a text that
\* holds no JSON object.
JudgeFailed ==
    /\ JudgeAnswered
    /\ \/ answers.judge.kind = "error"
       \/ \A i \in 1..Len(answers.judge.text) : answers.judge.text[i].k # "json"

\* the object the judge's text holds
Judged == GenerateFinalDecisionResume(answers.judge)

JudgeDecided == JudgeAnswered /\ ~JudgeFailed

Outcome(d) == Get(d, "final_decision")
Question(d) == Get(d, "follow_up_question")

FollowUpSentence == " A follow-up question is recommended to clarify ambiguities."

\* the clarifier's text without the white space around it
ClarifierText == Concat(Trim(answers.clarify.str))

ClarifierFailed == ClarifierAnswered /\ answers.clarify.kind = "error"
ClarifierGaveQuestion ==
    ClarifierAnswered /\ answers.clarify.kind = "ok" /\ ClarifierText # ""

\* C11: when a discrepancy is detected and the mediator's invocation fails
\* or its text holds no parseable JSON object, negotiateScores returns no
\* consensus without raising, and decideHiring still invokes the judge
\* exactly once, with no consensus, and returns only what follows the
\* judge's answer.
C11_NegotiationFailureIsSoft ==
    (MediatorAnswered /\ FailedInvocation(answers.mediator)) =>
        /\ dh_pc # "threw"
        /\ negotiationResult = JNull
        /\ calls.judge = 1
        /\ DecisionReturned => JudgeAnswered

\* C12: decideHiring never raises past its boundary: whatever the mediator,
\* the judge and the clarifier answer (error, unparseable text, all of them
\* failing) and whatever the evaluations argument, it ends by returning an
\* object, and it waits only while a capability owes it an answer.
C12_NeverRaises ==
    /\ dh_pc # "threw"
    /\ DecisionReturned => (decision # Nothing /\ decision # JNull)
    /\ dh_pc \in {"negotiating", "judging", "clarifying"} => gen.st \in {"pending", "hung"}

\* the mediator and the judge both failed, and a decision came back
C12_Witness ==
    /\ DecisionReturned
    /\ MediatorAnswered /\ FailedInvocation(answers.mediator)
    /\ JudgeFailed

\* C13: every Decision returned by decideHiring has its outcome in
\* {HIRE, REJECT, MAYBE} and a confidence in [0, 1], whatever the judge
\* answered.
C13_DecisionWellFormed ==
    DecisionReturned =>
        /\ Outcome(decision) \in {JStr("HIRE"), JStr("REJECT"), JStr("MAYBE")}
        /\ Get(decision, "confidence_score").t = "num"
        /\ Get(decision, "confidence_score").n \in 0..100

\* C14: when the judgment capability fails entirely, decideHiring returns
\* the fixed Decision: outcome MAYBE, confidence 0.5, a rationale that
\* recommends manual review, and empty details.
C14_FallbackOnJudgeFailure ==
    (DecisionReturned /\ JudgeFailed) =>
        /\ Outcome(decision) = JStr("MAYBE")
        /\ Get(decision, "confidence_score") = JNum(50)
        /\ Get(decision, "reasoning") =
              JStr("Decision could not be fully evaluated. Recommend manual review.")
        /\ Get(decision, "details") = JObj(EmptyObj)

\* the judge's invocation raised an error and the fixed Decision came back
C14_Witness ==
    /\ DecisionReturned
    /\ JudgeAnswered /\ answers.judge.kind = "error"

JudgedMaybeWithoutQuestion ==
    /\ JudgeDecided
    /\ Outcome(Judged) = JStr("MAYBE")
    /\ Question(Judged) = Undefined

\* C15 as stated: whenever the judge returns MAYBE with no question field,
\* the Decision returned carries one non-empty clarification question.
C15_MaybeCarriesQuestion ==
    (DecisionReturned /\ JudgedMaybeWithoutQuestion) =>
        /\ Question(decision).t = "str"
        /\ Question(decision).s # ""

\* C15, amended: whenever the judge returns MAYBE with no question field,
\* the clarifier is invoked once; if it answers with a text that is not
\* blank the Decision returned carries that text, trimmed, as its question,
\* and if it fails or answers with blank text the Decision carries none.
C15_QuestionWhenClarifierAnswers ==
    (DecisionReturned /\ JudgedMaybeWithoutQuestion) =>
        /\ calls.clarify = 1
        /\ ClarifierAnswered
        /\ ClarifierGaveQuestion =>
              /\ Question(decision) = JStr(ClarifierText)
              /\ Question(decision).s # ""
        /\ ~ClarifierGaveQuestion => Question(decision) = Undefined

\* the clarifier's text came with white space around it
C15_Witness ==
    /\ DecisionReturned
    /\ JudgedMaybeWithoutQuestion
    /\ ClarifierGaveQuestion
    /\ Len(answers.clarify.str) > 1

\* C16: no Decision returned with outcome HIRE or REJECT carries a question,
\* and the clarifier is invoked at most once per round and only when the
\* judged outcome is MAYBE with no question attached.
C16_QuestionOnlyWhenMaybe ==
    /\ (DecisionReturned /\ Outcome(decision) \in {JStr("HIRE"), JStr("REJECT")}) =>
          Question(decision) = Undefined
    /\ calls.clarify <= 1
    /\ calls.clarify = 1 =>
          /\ JudgeDecided
          /\ Outcome(Judged) = JStr("MAYBE")
          /\ Falsy(Question(Judged))

\* the judged outcome is MAYBE and the clarifier was asked
ClarifierAsked ==
    /\ JudgeDecided
    /\ Outcome(Judged) = JStr("MAYBE")
    /\ calls.clarify = 1

\* C17: when the judged outcome is MAYBE and the clarifier fails, the
\* Decision returned is the judge's, untouched and without a question; when
\* the clarifier succeeds the question is attached, the follow-up sentence
\* is appended to the rationale and nothing else changes.
C17_ClarificationFailureIsSoft ==
    (DecisionReturned /\ ClarifierAsked) =>
        /\ ~ClarifierGaveQuestion =>
              /\ decision = Judged
              /\ Question(decision) = Undefined
        /\ ClarifierGaveQuestion =>
              /\ Question(decision) = JStr(ClarifierText)
              /\ Get(decision, "reasoning").t = "str"
              /\ Get(Judged, "reasoning").t = "str" =>
                    Get(decision, "reasoning") =
                        JStr(Get(Judged, "reasoning").s \o FollowUpSentence)
              /\ \A k \in {"final_decision", "confidence_score", "details"} :
                    Get(decision, k) = Get(Judged, k)

\* the clarifier's invocation raised an error after a MAYBE of the judge
C17_Witness ==
    /\ DecisionReturned
    /\ ClarifierAsked
    /\ ClarifierFailed

\* the capabilities that were asked and have not answered
Outstanding ==
    { w \in {"mediator", "judge", "clarify"} : calls[w] > 0 /\ answers[w] = NoAnswer }

\* C18: the mediator is invoked only after a discrepancy was detected, the
\* judge only after the mediator's call, if any, has completed, the
\* clarifier only after the judge's call has completed; at most one of
\* these calls is outstanding at any time.
C18_OneCallAtATimeInOrder ==
    /\ calls.mediator > 0 => (AllNumeric(dh_evals) /\ MaxDeviationExceedsTwo)
    /\ calls.judge > 0 => (calls.mediator = 0 \/ MediatorAnswered)
    /\ calls.clarify > 0 => JudgeAnswered
    /\ Cardinality(Outstanding) <= 1

\* mediator, judge and clarifier were asked in one round, and the clarifier
\* is the one call outstanding
C18_Witness ==
    /\ calls.mediator = 1 /\ calls.judge = 1 /\ calls.clarify = 1
    /\ Outstanding = {"clarify"}

\* C20: in every Decision produced by the judge the details contain each
\* evaluator's raw score and their unweighted mean, and when the mediator
\* succeeded they reflect the mediated consensus score.
C20_DetailsReflectScores ==
    (DecisionReturned /\ JudgeDecided /\ AllNumeric(dh_evals)) =>
        LET d == Get(decision, "details") IN
        /\ d.t = "obj"
        /\ Get(d.o, "hr_score") = JNum(ScoreOf("hr"))
        /\ Get(d.o, "manager_score") = JNum(ScoreOf("manager"))
        /\ Get(d.o, "sales_score") = JNum(ScoreOf("sales"))
        /\ Get(d.o, "average_score") =
              JNum(ScoreOf("hr") + ScoreOf("manager") + ScoreOf("sales"))
        /\ (MediatorAnswered /\ negotiationResult # JNull) =>
              Get(d.o, "consensus_score") = Get(negotiationResult, "consensus_score")

-----------------------------------------------------------------------------
(* Properties of the session behind the API.                               *)

\* the session the cache holds for the candidate, if any
CachedSession ==
    IF SessionKey \in DOMAIN cache THEN Parse(cache[SessionKey]) ELSE Nothing

Completed(session) ==
    /\ session # Nothing
    /\ session.status = JStr("completed")
    /\ session.decision # JNull

\* C19: once the cached session of the candidate is 'completed' with a
\* non-null decision, no later step of any request changes its status or
\* replaces or clears its decision.
C19_DecidedIsTerminal ==
    [][ Completed(CachedSession) =>
          /\ Completed(CachedSession')
          /\ CachedSession'.decision = CachedSession.decision ]_vars

-----------------------------------------------------------------------------
(* Further properties of the evaluators and of decideHiring.               *)

\* the response carries a well-formed object first and a closing brace
\* somewhere after it
ObjectThenBrace(r) ==
    /\ r.kind = "http" /\ r.status >= 200 /\ r.status < 300 /\ r.body = "text"
    /\ Len(r.text) > 1
    /\ r.text[1].k = "json"
    /\ \E j \in 2..Len(r.text) : r.text[j].k \in {"rbrace", "json", "badobj"}

\* C23: when an evaluator's text holds a valid JSON object followed by
\* further text with another closing brace, the first object is parsed and
\* returned as that evaluator's result, not the placeholder.
C23_FirstObjectParsed ==
    Returned =>
        \A a \in Agents :
            (Answered(a) /\ ObjectThenBrace(http[a].resp)) =>
                Entry(a) = http[a].resp.text[1].o

\* the default evaluation as decideHiring meets it
IsDefaultEvaluation(e) ==
    /\ Get(e, "score") = JNum(5)
    /\ Get(e, "recommendation") = JStr("MAYBE")
    /\ Get(e, "analysis").t = "errobj"

HoldsDefaultEvaluation ==
    /\ dh_pc # "idle"
    /\ AllNumeric(dh_evals)
    /\ \E a \in Agents : IsDefaultEvaluation(dh_evals[a])

\* C24: a placeholder entry counts with its score 5 in the mean and in
\* maxDeviation like a real score (a placeholder next to two scores of 9
\* makes the mediator run), and the mediator and the judge are handed the
\* placeholder's score, recommendation and rationale like any other entry.
C24_PlaceholderCountsAsScore ==
    HoldsDefaultEvaluation =>
        /\ calls.mediator = IF MaxDeviationExceedsTwo THEN 1 ELSE 0
        /\ \A a \in Agents :
              IsDefaultEvaluation(dh_evals[a]) =>
                 /\ calls.mediator = 1 =>
                       /\ prompts.mediator[a].score = JNum(5)
                       /\ prompts.mediator[a].recommendation = JStr("MAYBE")
                       /\ prompts.mediator[a].analysis = dh_evals[a].analysis
                 /\ calls.judge = 1 =>
                       /\ prompts.judge.entries[a].score = JNum(5)
                       /\ prompts.judge.entries[a].recommendation = JStr("MAYBE")
                       /\ prompts.judge.entries[a].insight.of = dh_evals[a].analysis

\* the HR evaluator failed next to two scores of 9; mediator and judge ran
C24_Witness ==
    /\ HoldsDefaultEvaluation
    /\ IsDefaultEvaluation(dh_evals["hr"])
    /\ ScoreOf("manager") = 9 /\ ScoreOf("sales") = 9
    /\ calls.mediator = 1
    /\ calls.judge = 1

\* C25: when the judge fails the clarifier is not invoked in that round;
\* the fallback Decision comes back without a follow-up question and
\* without the follow-up sentence in its rationale, though it is a MAYBE.
C25_NoClarificationOnJudgeFailure ==
    JudgeFailed =>
        /\ calls.clarify = 0
        /\ DecisionReturned
        /\ Outcome(decision) = JStr("MAYBE")
        /\ Question(decision) = Undefined
        /\ Get(decision, "reasoning") =
              JStr("Decision could not be fully evaluated. Recommend manual review.")

\* the judge answered with prose only
C25_Witness ==
    /\ DecisionReturned
    /\ JudgeAnswered /\ answers.judge.kind = "ok"
    /\ JudgeFailed

-----------------------------------------------------------------------------
(* Further properties of the session behind the API.                       *)

\* C22: the evaluations of the cached session are empty or hold all three
\* keys hr, manager and sales, and every call of decideHiring made by
\* /decide receives all three entries, also when /evaluate and /decide
\* interleave.
C22_CompleteEvaluationSet ==
    /\ CachedSession # Nothing =>
          DOMAIN CachedSession.evaluations \in {{}, Agents}
    /\ \A r \in Slots :
          req[r].pc = "deciding" => DOMAIN req[r].session.evaluations = Agents

\* decideHiring is running for /decide while an /evaluate of the same
\* candidate is in flight
C22_Witness ==
    \E r, q \in Slots :
        /\ req[r].op = "decide" /\ req[r].pc = "deciding"
        /\ req[q].op = "evaluate" /\ req[q].pc = "saveEvaluations"

\* slot r takes a /decide request in this step
DecideArrives(r) ==
    /\ started' = started + 1
    /\ req'[r].id = started'
    /\ req'[r].op = "decide"

Rejected404(q) == q.pc = "done" /\ q.res.code = 404
Rejected400(q) == q.pc = "done" /\ q.res.code = 400

\* C26: /decide answers 404 when no session is cached and 400 when the
\* cached session has empty evaluations; in both cases decideHiring is not
\* called, no row is inserted and the cache is left as it was.
C26_DecideRejectsWithoutEffects ==
    [][ \A r \in Slots :
          DecideArrives(r) =>
             /\ CachedSession = Nothing =>
                   (Rejected404(req'[r]) /\ cache' = cache /\ db' = db)
             /\ (CachedSession # Nothing /\ DOMAIN CachedSession.evaluations = {}) =>
                   (Rejected400(req'[r]) /\ cache' = cache /\ db' = db) ]_vars

\* a /decide was answered 400 over the session that /upload had cached
C26_Witness ==
    \E r \in Slots :
        /\ req[r].op = "decide" /\ Rejected400(req[r])
        /\ CachedSession # Nothing
        /\ CachedSession.status = JStr("ready_to_evaluate")

\* the insert awaited by slot r settles in this step
SaveSettles(r) ==
    /\ req[r].pc \in {"saveEvaluations", "saveDecision"}
    /\ req'[r].pc = "done"

\* C27: in /evaluate and /decide the cached session is rewritten only in the
\* step in which the insert has succeeded; when saveEvaluationsQuery or
\* saveDecisionQuery raises the request answers 500 and the cached session
\* stays as it was.
C27_PersistenceBeforeCache ==
    [][ /\ \A r \in Slots :
              SaveSettles(r) =>
                 \/ req'[r].res.code = 500 /\ cache' = cache
                 \/ /\ req'[r].res.code = 200
                    /\ db' # db
                    /\ CachedSession' = req[r].session
        /\ \A r \in Slots :
              (req[r].op \in {"evaluate", "decide"} /\ ~SaveSettles(r) /\ req'[r] # req[r])
                 => cache' = cache ]_vars

\* saveDecisionQuery raised: 500 was answered and the cached session is
\* still the one /evaluate wrote
C27_Witness ==
    \E r \in Slots :
        /\ req[r].op = "decide" /\ req[r].pc = "done" /\ req[r].res.code = 500
        /\ CachedSession # Nothing
        /\ CachedSession.status = JStr("evaluating")
        /\ db.decisions = <<>>

\* C28: a cached session has status 'completed' if and only if its decision
\* is non-null, a session with a decision has non-empty evaluations, and
\* /status reports has_decision true exactly when the status is 'completed'.
C28_SessionInvariant ==
    /\ CachedSession # Nothing =>
          /\ CachedSession.status = JStr("completed") <=> CachedSession.decision # JNull
          /\ CachedSession.decision # JNull => DOMAIN CachedSession.evaluations # {}
    /\ \A r \in Slots :
          (req[r].op = "status" /\ req[r].res.code = 200) =>
              (req[r].res.body.has_decision <=> req[r].res.body.status = JStr("completed"))

\* /status answered over a completed session
C28_Witness ==
    \E r \in Slots :
        /\ req[r].op = "status" /\ req[r].res.code = 200
        /\ req[r].res.body.has_decision
        /\ Completed(CachedSession)

Quiet == \A r \in Slots : req[r].pc \in {"idle", "done"}

\* the evaluations of the last complete insert of saveEvaluationsQuery
LastPersisted ==
    LET n == Len(db.evaluations)
    IN  [a \in Agents |->
           db.evaluations[n - 3 + (CHOOSE i \in 1..3 : AgentOrder[i] = a)][2]]

LastInsertComplete ==
    LET n == Len(db.evaluations)
    IN  /\ n >= 3
        /\ \A i \in 1..3 : db.evaluations[n - 3 + i][1] = AgentOrder[i]

\* C29: once an /evaluate and a /decide on the same candidate have both
\* completed, the evaluations in the cached session are the ones most
\* recently persisted to the database.
C29_NoLostUpdate ==
    (Quiet /\ CachedSession # Nothing /\ LastInsertComplete
       /\ DOMAIN CachedSession.evaluations # {}) =>
        CachedSession.evaluations = LastPersisted

-----------------------------------------------------------------------------
(* Properties of the cache.                                                *)

\* C21: with Redis unavailable (no client, or commands that raise) the
\* cache keeps working on the in-memory Map: a getRedis(key) issued after
\* setRedis(key, v, ttl), before the entry expires or is deleted, returns v,
\* over any sequence of set, get and delete calls.
C21_FallbackReadsLastWrite ==
    (lastGet # NoGet /\ lastSet[lastGet.key] # NoSet
       /\ lastGet.at < lastSet[lastGet.key].at + CacheTtl) =>
        lastGet.value = lastSet[lastGet.key].value

\* C30: without a Redis client, an entry written by setRedis(key, v, ttl)
\* stays in the in-memory Map for the full ttl counted from that write, also
\* when the same key had been written before.
C30_EntryLivesItsTtl ==
    redisClient = "undefined" =>
        \A key \in CacheKeys :
            (lastSet[key] # NoSet /\ now < lastSet[key].at + CacheTtl) =>
                MemoryGet(key) = lastSet[key].value

====
